---- MODULE Spec2Model ----
(***************************************************************************)
(* Route planning core of beijing-commute-optimizer: AmapService (provider *)
(* client), MixedRouteGenerator (hybrid candidates and pruning) and        *)
(* RoutePlannerService (scenario detection, candidate generation, scoring, *)
(* recommendation, result assembly).                                       *)
(*                                                                         *)
(* Units.  Durations are whole minutes, distances whole metres.  Money is  *)
(* kept in tenths of a yuan (the code rounds every fare to one decimal),   *)
(* and scores.total in tenths (the code rounds it to one decimal).         *)
(* Weights are kept in tenths (0.7 is 7).  The code computes in IEEE       *)
(* doubles; the model computes the same expressions exactly and rounds as  *)
(* Math.round does (half up).                                              *)
(*                                                                         *)
(* Strings.  A name is a sequence of characters, written in pinyin:        *)
(* <<"ji","chang">> is the keyword '机场', <<"huo","che","zhan">> is       *)
(* '火车站'.  The scenario labels '赶路模式', '深夜模式', '高峰模式' and   *)
(* '日常模式' are written "rushToCatch", "lateNight", "peak", "routine".   *)
(***************************************************************************)
EXTENDS Integers, Sequences, FiniteSets, TLC

VARIABLES
    pc,          \* position of the request in the handler and planRoute / of a
                 \* function run
    params,      \* planRoute's params: origin, destination, hour of time, preference
    apiKey,      \* AmapService.apiKey (AMAP_KEY): not set (mock data), a key the
                 \* provider accepts, or a key the provider refuses
    live,        \* provider calls so far that were answered by the live API
    scenario,    \* const scenario in planRoute
    allRoutes,   \* const allRoutes in _generateAllRoutes / planRoute
    mixedRoutes, \* routes gathered by the three strategies of generateMixedRoutes
    idx,         \* loop position of the running strategy
    tried,       \* ghost: each sub-strategy, station and station pair tried so far, with
                 \* what the provider answered for it
    scoredRoutes,\* const scoredRoutes in planRoute
    result,      \* the object planRoute returns
    input,       \* body of the HTTP request / argument of a function run alone
    output       \* the HTTP response / the function's return value

vars == <<pc, params, apiKey, live, scenario, allRoutes, mixedRoutes, idx,
          tried, scoredRoutes, result, input, output>>

NoValue == [none |-> TRUE]    \* null / undefined / not yet assigned

----------------------------------------------------------------------------
(* Sequence and arithmetic helpers.                                        *)

Max2(a, b) == IF a >= b THEN a ELSE b

RECURSIVE SumSeq(_)
SumSeq(s) == IF s = <<>> THEN 0 ELSE Head(s) + SumSeq(Tail(s))

\* the first element taken for the least
FirstForMin(s) == s[1]

RECURSIVE MinSeq(_)
MinSeq(s) == IF Len(s) = 1 THEN s[1]
             ELSE LET m == MinSeq(Tail(s)) IN IF s[1] <= m THEN s[1] ELSE m

RECURSIVE MaxSeq(_)
MaxSeq(s) == IF Len(s) = 1 THEN s[1]
             ELSE LET m == MaxSeq(Tail(s)) IN IF s[1] >= m THEN s[1] ELSE m

\* Array.prototype.slice(0, n)
SliceFirst(s, n) == SubSeq(s, 1, IF Len(s) < n THEN Len(s) ELSE n)

\* Array.prototype.slice(-n)
SliceLast(s, n) == SubSeq(s, IF Len(s) > n THEN Len(s) - n + 1 ELSE 1, Len(s))

\* Array.prototype.filter, by a sequence of booleans telling which to keep
RECURSIVE FilterBy(_, _)
FilterBy(s, keep) ==
    IF s = <<>> THEN <<>>
    ELSE (IF Head(keep) THEN <<Head(s)>> ELSE <<>>) \o FilterBy(Tail(s), Tail(keep))

\* Math.round(num / den) for den > 0: the nearest integer, halves going up
RoundDiv(num, den) == (num + den \div 2) \div den

\* Math.ceil(a / b) for b > 0
CeilDiv(a, b) == -((-a) \div b)

\* String.prototype.includes
Includes(name, word) ==
    \E i \in 1..(Len(name) - Len(word) + 1) :
        SubSeq(name, i, i + Len(word) - 1) = word

\* Array.prototype.sort with comparator (a, b) => key(a) - key(b).  The sort
\* is stable (ECMAScript 2019): equal keys keep their order.  Insertion from
\* the right end, each element placed after the elements with key <= its own.
RECURSIVE InsertByKey(_, _, _, _)
InsertByKey(x, k, s, ks) ==
    \* s is sorted by ks; returns the pair <<s', ks'>> with x inserted
    IF s = <<>> \/ ks[Len(s)] <= k
    THEN <<Append(s, x), Append(ks, k)>>
    ELSE LET r == InsertByKey(x, k, SubSeq(s, 1, Len(s) - 1), SubSeq(ks, 1, Len(s) - 1))
         IN  <<Append(r[1], s[Len(s)]), Append(r[2], ks[Len(s)])>>

RECURSIVE SortPairs(_, _)
SortPairs(s, ks) ==
    IF s = <<>> THEN <<<<>>, <<>>>>
    ELSE LET n == Len(s)
             r == SortPairs(SubSeq(s, 1, n - 1), SubSeq(ks, 1, n - 1))
         IN  InsertByKey(s[n], ks[n], r[1], r[2])

SortByKey(s, ks) == SortPairs(s, ks)[1]

----------------------------------------------------------------------------
(* AmapService: the provider client.                                       *)

\* process.env.AMAP_KEY: not set, or set to a key that the provider accepts
\* or refuses
KeyUnset == "unset"

ApiKeys == {KeyUnset, "accepted", "refused"}

\* An awaited call settles: fulfilled with a value, or rejected (an exception
\* in flight).
Throw == [throw |-> TRUE]

Fulfilled(v) == [value |-> v]

IsThrow(v) == "throw" \in DOMAIN v

\* _mockSubwayRoutes: one itinerary, 65 min, 9 yuan, 45000 m
MockSubwayRoutes ==
    << [ id |-> <<"subway_mock", "1">>, type |-> "subway",
         duration |-> 65, distance |-> 45000, cost |-> 90, walkDistance |-> 800,
         segments |-> <<
            [mode |-> "walk", distance |-> 300, duration |-> 4],
            [mode |-> "subway", stations |-> 3, duration |-> 20],
            [mode |-> "subway", stations |-> 18, duration |-> 35],
            [mode |-> "subway", stations |-> 4, duration |-> 10],
            [mode |-> "walk", distance |-> 500, duration |-> 6] >> ] >>

\* _mockDrivingRoute: 52000 m, 78 min
MockDrivingRoute ==
    [distance |-> 52000, duration |-> 78, traffic |-> 25, tolls |-> 0]

\* _parseTransitSegments: a bus line becomes a subway segment, a walk a walk
\* segment, anything else is dropped.  (Line and stop names are left out.)
RECURSIVE ParseTransitSegments(_)
ParseTransitSegments(segs) ==
    IF segs = <<>> THEN <<>>
    ELSE LET seg == Head(segs)
             one == IF seg.kind = "bus"
                    THEN << [mode |-> "subway", stations |-> seg.via_num + 2,
                             duration |-> CeilDiv(seg.duration, 60)] >>
                    ELSE IF seg.kind = "walking"
                    THEN << [mode |-> "walk", distance |-> seg.distance,
                             duration |-> CeilDiv(seg.duration, 60)] >>
                    ELSE <<>>
         IN  one \o ParseTransitSegments(Tail(segs))

\* transits.slice(0, 3): the number of itineraries kept
MaxTransits == 3

\* the default ticket price of `transit.cost || 9`, in tenths of a yuan
DefaultTicket == 90

\* _parseSubwayRoutes without its slice: every itinerary is kept
ParseSubwayRoutesAll(transits) ==
    [ i \in 1..Len(transits) |->
        [ id |-> <<"subway", <<"0", "1", "2", "3", "4", "5">>[i]>>, type |-> "subway",
          duration |-> CeilDiv(transits[i].duration, 60),
          distance |-> transits[i].distance,
          cost |-> IF transits[i].cost = 0 THEN DefaultTicket ELSE transits[i].cost,
          walkDistance |-> transits[i].walking_distance,
          segments |-> ParseTransitSegments(transits[i].segments) ] ]

\* _parseSubwayRoutes: the first three itineraries, seconds to minutes
ParseSubwayRoutes(transits) ==
    LET kept == SliceFirst(transits, MaxTransits)
    IN  [ i \in 1..Len(kept) |->
            [ id |-> <<"subway", <<"0", "1", "2">>[i]>>, type |-> "subway",
              duration |-> CeilDiv(kept[i].duration, 60),
              distance |-> kept[i].distance,
              cost |-> IF kept[i].cost = 0 THEN DefaultTicket ELSE kept[i].cost,
              walkDistance |-> kept[i].walking_distance,
              segments |-> ParseTransitSegments(kept[i].segments) ] ]

\* _parseDrivingRoute
ParseDrivingRoute(path) ==
    [distance |-> path.distance, duration |-> CeilDiv(path.duration, 60),
     traffic |-> path.traffic_lights, tolls |-> path.tolls]

\* getSubwayRoutes without its catch: a failed request rejects
GetSubwayRoutesRethrow(key, resp) ==
    IF key = KeyUnset THEN Fulfilled(MockSubwayRoutes)
    ELSE IF resp.kind = "error" THEN Throw
    ELSE IF resp.kind = "ok" THEN Fulfilled(ParseSubwayRoutes(resp.transits))
    ELSE Fulfilled(<<>>)

\* getSubwayRoutes, given what the HTTP request came to: no key or a failed
\* request gives the mock itinerary, status '1' the parsed itineraries,
\* any other status the empty list.  It never rejects.
GetSubwayRoutes(key, resp) ==
    IF key = KeyUnset THEN Fulfilled(MockSubwayRoutes)
    ELSE IF resp.kind = "error" THEN Fulfilled(MockSubwayRoutes)
    ELSE IF resp.kind = "ok" THEN Fulfilled(ParseSubwayRoutes(resp.transits))
    ELSE Fulfilled(<<>>)

\* getDrivingRoute: as getSubwayRoutes, null for a status other than '1'
GetDrivingRoute(key, resp) ==
    IF key = KeyUnset THEN Fulfilled(MockDrivingRoute)
    ELSE IF resp.kind = "error" THEN Fulfilled(MockDrivingRoute)
    ELSE IF resp.kind = "ok" THEN Fulfilled(ParseDrivingRoute(resp.path))
    ELSE Fulfilled(NoValue)

----------------------------------------------------------------------------
(* What the provider's HTTP API can answer (bounded).                      *)

RawFast ==
    [ duration |-> 2400, distance |-> 30000, cost |-> 60, walking_distance |-> 200,
      segments |-> << [kind |-> "walking", distance |-> 200, duration |-> 150],
                      [kind |-> "bus", duration |-> 2220, via_num |-> 10] >> ]

RawSlow ==
    [ duration |-> 11970, distance |-> 60000, cost |-> 0, walking_distance |-> 1200,
      segments |-> << [kind |-> "walking", distance |-> 600, duration |-> 480],
                      [kind |-> "bus", duration |-> 6000, via_num |-> 12],
                      [kind |-> "bus", duration |-> 5100, via_num |-> 14],
                      [kind |-> "other"],
                      [kind |-> "walking", distance |-> 600, duration |-> 420] >> ]

PathShort == [distance |-> 1500, duration |-> 230, traffic_lights |-> 2, tolls |-> 0]

PathMid == [distance |-> 20000, duration |-> 1790, traffic_lights |-> 12, tolls |-> 0]

PathFar == [distance |-> 62000, duration |-> 3600, traffic_lights |-> 6, tolls |-> 0]

\* the most provider calls of one request that the live API answers
MaxLive == 1

TransitResponses ==
    { [kind |-> "error"], [kind |-> "status0"] }
    \cup { [kind |-> "ok", transits |-> t] :
             t \in { <<>>, <<RawFast>>, <<RawSlow>>,
                     <<RawSlow, RawFast, RawSlow, RawFast>> } }

DrivingResponses ==
    { [kind |-> "error"], [kind |-> "status0"] }
    \cup { [kind |-> "ok", path |-> p] : p \in {PathShort, PathMid} }

\* The answers one more call can get: without a key no request is made (the
\* answer is not looked at); a refused key has every request answered with a
\* status other than '1'; with an accepted key the request fails or is
\* answered.
Answers(all, key, n) ==
    IF key = KeyUnset THEN { [kind |-> "error"] }
    ELSE IF key = "refused" THEN { [kind |-> "status0"] }
    ELSE IF n < MaxLive THEN all
    ELSE { [kind |-> "error"] }

\* the number of live answers among the responses of one step
LiveCount(resps) ==
    SumSeq([ i \in 1..Len(resps) |-> IF resps[i].kind = "error" THEN 0 ELSE 1 ])

----------------------------------------------------------------------------
(* MixedRouteGenerator.                                                    *)

\* fare table of both _estimateTaxiCost: 13 yuan, 2.3 yuan per km after the
\* first 3 km, 0.5 yuan per minute; here in 1/10000 yuan per metre / minute
BaseFare == 130000

FreeMetres == 3000

PerMetre == 23

PerMinute == 5000

\* 1/10000 yuan in a tenth of a yuan
TenthUnit == 1000

\* MixedRouteGenerator._estimateTaxiCost, in tenths of a yuan
MixedEstimateTaxiCost(distance, duration) ==
    LET kmCost   == Max2(0, distance - FreeMetres) * PerMetre
        timeCost == duration * PerMinute
    IN  RoundDiv(BaseFare + kmCost + timeCost, TenthUnit)

\* minutes of waiting added to a hybrid's taxi leg
MixedWait == 3

\* _calculateTaxiSegment: reading driving.distance of a null estimate throws
CalculateTaxiSegment(from, to, driving) ==
    IF IsThrow(driving) THEN Throw
    ELSE IF driving.value = NoValue THEN Throw
    ELSE [ mode |-> "taxi", from |-> from.name, to |-> to.name,
           distance |-> driving.value.distance,
           duration |-> driving.value.duration + MixedWait,
           cost |-> MixedEstimateTaxiCost(driving.value.distance, driving.value.duration),
           waitTime |-> MixedWait ]

\* getSubwayStationsAlongRoute: the fixed list of seven stations
SubwayStationsAlongRoute ==
    << [name |-> <<"daxing", "ji", "chang", "zhan">>],
       [name |-> <<"daxingxincheng", "zhan">>],
       [name |-> <<"caoqiao", "zhan">>],
       [name |-> <<"xidan", "zhan">>],
       [name |-> <<"xizhimen", "zhan">>],
       [name |-> <<"beijingbei", "zhan">>],
       [name |-> <<"shengmingkexueyuan", "zhan">>] >>

\* stations looked at by the start-taxi and the end-taxi strategy
NearbyCount == 5

\* stations on each side looked at by the both-taxi strategy
BothCount == 2

\* The try block of one iteration of _generateStartTaxiRoutes: the route to
\* push, NoValue when the provider has no itinerary, Throw when a leg threw.
StartTaxiBody(origin, destination, station, driving, subway) ==
    LET taxiSegment == CalculateTaxiSegment(origin, station, driving)
    IN  IF IsThrow(taxiSegment) THEN Throw
        ELSE IF IsThrow(subway) THEN Throw
        ELSE IF Len(subway.value) > 0
        THEN LET subwaySegment == subway.value[1]
             IN  [ id |-> <<"mixed_start_taxi">> \o station.name, type |-> "mixed",
                   segments |-> <<taxiSegment>> \o subwaySegment.segments,
                   totalDuration |-> taxiSegment.duration + subwaySegment.duration,
                   totalCost |-> taxiSegment.cost + subwaySegment.cost,
                   totalDistance |-> taxiSegment.distance + subwaySegment.distance ]
        ELSE NoValue

\* The try block of one iteration of _generateEndTaxiRoutes
EndTaxiBody(origin, destination, station, subway, driving) ==
    IF IsThrow(subway) THEN Throw
    ELSE IF Len(subway.value) > 0
    THEN LET subwaySegment == subway.value[1]
             taxiSegment == CalculateTaxiSegment(station, destination, driving)
         IN  IF IsThrow(taxiSegment) THEN Throw
             ELSE [ id |-> <<"mixed_end_taxi">> \o station.name, type |-> "mixed",
                    segments |-> subwaySegment.segments \o <<taxiSegment>>,
                    totalDuration |-> subwaySegment.duration + taxiSegment.duration,
                    totalCost |-> subwaySegment.cost + taxiSegment.cost,
                    totalDistance |-> subwaySegment.distance + taxiSegment.distance ]
    ELSE NoValue

\* The try block of one iteration of _generateBothTaxiRoutes
BothTaxiBody(origin, destination, startStation, endStation, driving1, subway, driving2) ==
    LET startTaxi == CalculateTaxiSegment(origin, startStation, driving1)
    IN  IF IsThrow(startTaxi) THEN Throw
        ELSE IF IsThrow(subway) THEN Throw
        ELSE IF Len(subway.value) > 0
        THEN LET subwaySegment == subway.value[1]
                 endTaxi == CalculateTaxiSegment(endStation, destination, driving2)
             IN  IF IsThrow(endTaxi) THEN Throw
                 ELSE [ id |-> <<"mixed_both_taxi">> \o startStation.name \o endStation.name,
                        type |-> "mixed",
                        segments |-> <<startTaxi>> \o subwaySegment.segments \o <<endTaxi>>,
                        totalDuration |-> startTaxi.duration + subwaySegment.duration
                                          + endTaxi.duration,
                        totalCost |-> startTaxi.cost + subwaySegment.cost + endTaxi.cost,
                        totalDistance |-> startTaxi.distance + subwaySegment.distance
                                          + endTaxi.distance ]
        ELSE NoValue

\* What one iteration leaves in `routes`: the route is pushed; a throw is
\* caught inside the loop body and logged, and the loop goes on.
PushOrSkip(routes, body) ==
    IF IsThrow(body) \/ body = NoValue THEN routes ELSE Append(routes, body)

\* NextIteration with the try around the whole loop: a throw leaves the loop
NextIterationAbort(i, last, body) == IF IsThrow(body) THEN last + 1 ELSE i + 1

\* The loop position after an iteration whose body settled as `body`: the
\* catch sits inside the for loop, so the next station follows in any case.
NextIteration(i, last, body) == i + 1

\* a taxi leg must be longer than this many metres to be worth keeping
MinTaxiMetres == 2000

\* the number of hybrid candidates _pruneRoutes keeps
PruneKeep == 10

\* rule 1 of _pruneRoutes: every taxi segment is longer than 2000 m
WorthKeeping(r) ==
    \A i \in 1..Len(r.segments) :
        r.segments[i].mode = "taxi" => r.segments[i].distance > MinTaxiMetres

\* the sort key of rule 2 (costs are in tenths: ten times the code's key)
PruneKey(r) == 10 * r.totalDuration + r.totalCost * 2

\* _pruneRoutes without its sort
PruneRoutesUnsorted(routes) ==
    SliceFirst(FilterBy(routes, [i \in 1..Len(routes) |-> WorthKeeping(routes[i])]),
               PruneKeep)

\* _pruneRoutes
PruneRoutes(routes) ==
    LET filtered == FilterBy(routes, [i \in 1..Len(routes) |-> WorthKeeping(routes[i])])
        sorted   == SortByKey(filtered, [i \in 1..Len(filtered) |-> PruneKey(filtered[i])])
    IN  SliceFirst(sorted, PruneKeep)

----------------------------------------------------------------------------
(* RoutePlannerService.                                                    *)

Airport == <<"ji", "chang">>

TrainStation == <<"huo", "che", "zhan">>

\* _detectScenario with the time of day looked at before the destination
DetectScenarioTimeFirst(p) ==
    LET hour == p.hour
        named == "name" \in DOMAIN p.destination
    IN  IF hour >= 23 \/ hour < 5 THEN "lateNight"
        ELSE IF named /\ (Includes(p.destination.name, Airport)
                          \/ Includes(p.destination.name, TrainStation))
        THEN "rushToCatch"
        ELSE IF (hour >= 7 /\ hour <= 9) \/ (hour >= 17 /\ hour <= 19) THEN "peak"
        ELSE "routine"

\* _detectScenario: destination.name?.includes(...) is undefined, so falsy,
\* for a destination without a name
DetectScenario(p) ==
    LET hour == p.hour
        named == "name" \in DOMAIN p.destination
    IN  IF named /\ (Includes(p.destination.name, Airport)
                     \/ Includes(p.destination.name, TrainStation))
        THEN "rushToCatch"
        ELSE IF hour >= 23 \/ hour < 5 THEN "lateNight"
        ELSE IF (hour >= 7 /\ hour <= 9) \/ (hour >= 17 /\ hour <= 19) THEN "peak"
        ELSE "routine"

\* the surcharge factors of _estimateTaxiCost, in tenths: x1.3 and x1.5
PeakFactor == 13

LateNightFactor == 15

NoFactor == 10

\* RoutePlannerService._estimateTaxiCost, in tenths of a yuan
EstimateTaxiCost(distance, duration, scen) ==
    LET cost   == BaseFare + Max2(0, distance - FreeMetres) * PerMetre
                  + duration * PerMinute
        factor == IF scen = "peak" THEN PeakFactor
                  ELSE IF scen = "lateNight" THEN LateNightFactor
                  ELSE NoFactor
    IN  RoundDiv(cost * factor, TenthUnit * NoFactor)

\* the default value of _estimateTaxiCost's third parameter
DefaultScenario == "routine"

\* the scenario _generateTaxiRoute hands to _estimateTaxiCost: it passes two
\* arguments, so the parameter takes its default
TaxiRouteScenario(scen) == DefaultScenario

\* minutes of waiting added to the pure-taxi candidate
TaxiWait == 5

\* _generateTaxiRoute: the route, NoValue without an estimate, Throw when
\* the estimate's call rejected
GenerateTaxiRoute(origin, destination, driving, scen) ==
    IF IsThrow(driving) THEN Throw
    ELSE IF driving.value = NoValue THEN NoValue
    ELSE LET d == driving.value
             cost == EstimateTaxiCost(d.distance, d.duration, TaxiRouteScenario(scen))
         IN  [ id |-> <<"taxi_full">>, type |-> "taxi",
               segments |-> << [ mode |-> "taxi", from |-> origin.name,
                                 to |-> destination.name, distance |-> d.distance,
                                 duration |-> d.duration, cost |-> cost,
                                 waitTime |-> TaxiWait ] >>,
               totalDuration |-> d.duration + TaxiWait,
               totalCost |-> cost,
               totalDistance |-> d.distance ]

\* the pure-transit candidates of _generateAllRoutes: each itinerary tagged
\* and given totals copied from its own duration, cost and distance
SubwayCandidates(subwayRoutes) ==
    [ i \in 1..Len(subwayRoutes) |->
        [ id |-> subwayRoutes[i].id, type |-> "subway",
          duration |-> subwayRoutes[i].duration,
          distance |-> subwayRoutes[i].distance,
          cost |-> subwayRoutes[i].cost,
          walkDistance |-> subwayRoutes[i].walkDistance,
          segments |-> subwayRoutes[i].segments,
          totalDuration |-> subwayRoutes[i].duration,
          totalCost |-> subwayRoutes[i].cost,
          totalDistance |-> subwayRoutes[i].distance ] ]

\* the penalties of _calculateComfortScore
TransferPenalty == 15

WalkStep == 500

WalkPenalty == 5

WaitPenalty == 2

FullScore == 100

\* _calculateComfortScore
CalculateComfortScore(route) ==
    LET segs == route.segments
        transfers == Cardinality({ i \in 2..Len(segs) :
                        segs[i].mode = "subway" /\ segs[i - 1].mode = "subway" })
        walkDistance == SumSeq([ i \in 1..Len(segs) |->
                            IF segs[i].mode = "walk" THEN segs[i].distance ELSE 0 ])
        taxiWait == SumSeq([ i \in 1..Len(segs) |->
                            IF segs[i].mode = "taxi" THEN segs[i].waitTime ELSE 0 ])
    IN  Max2(0, FullScore - transfers * TransferPenalty
                - (walkDistance \div WalkStep) * WalkPenalty
                - taxiWait * WaitPenalty)

\* _getWeights, in tenths; an unknown preference falls back to balance
GetWeights(preference, scen) ==
    LET base == IF preference = "time" THEN [time |-> 7, cost |-> 2, comfort |-> 1]
                ELSE IF preference = "cost" THEN [time |-> 2, cost |-> 7, comfort |-> 1]
                ELSE [time |-> 4, cost |-> 4, comfort |-> 2]
    IN  IF scen = "rushToCatch" THEN [time |-> 8, cost |-> 1, comfort |-> 1]
        ELSE IF scen = "lateNight" THEN [time |-> 4, cost |-> 3, comfort |-> 3]
        ELSE base

\* AxisScore with the rescaling turned round: the largest value scores 100
AxisScoreInverted(v, min, max) ==
    IF max = min THEN [n |-> FullScore, d |-> 1]
    ELSE [n |-> FullScore * (v - min), d |-> max - min]

\* One axis of the normalisation, as the fraction n / d: 100 when all
\* candidates tie, else 100 * (1 - (v - min) / (max - min))
AxisScore(v, min, max) ==
    IF max = min THEN [n |-> FullScore, d |-> 1]
    ELSE [n |-> FullScore * (max - v), d |-> max - min]

\* the divisor of the weighted sum in _calculateScores: ( ... ) / 100
TotalDivisor == 100

\* scores.total in tenths: Math.round(totalScore * 10), where totalScore is
\* the weighted sum of the unrounded scores (weights 0.7 = 7/10) over 100
TotalScore(ts, cs, comfort, w) ==
    LET tenfold == ts.n * w.time * cs.d + cs.n * w.cost * ts.d
                   + comfort * w.comfort * ts.d * cs.d
    IN  RoundDiv(tenfold, ts.d * cs.d * TotalDivisor)

\* _generateSummary
GenerateSummary(route) ==
    LET segs == route.segments
        taxiCount == Cardinality({ i \in 1..Len(segs) : segs[i].mode = "taxi" })
        subwayCount == Cardinality({ i \in 1..Len(segs) : segs[i].mode = "subway" })
    IN  [ description |-> IF route.type = "taxi" THEN [kind |-> "taxi"]
                          ELSE IF route.type = "subway" THEN [kind |-> "subway"]
                          ELSE [kind |-> "mixed", taxi |-> taxiCount,
                                subway |-> subwayCount],
          totalTime |-> route.totalDuration,
          totalCost |-> route.totalCost,
          walkDistance |-> SumSeq([ i \in 1..Len(segs) |->
                              IF segs[i].mode = "walk" THEN segs[i].distance ELSE 0 ]) ]

\* { ...route, scores, summary }
WithScores(route, sc) ==
    [ f \in DOMAIN route \cup {"scores", "summary"} |->
        IF f = "scores" THEN sc
        ELSE IF f = "summary" THEN GenerateSummary(route)
        ELSE route[f] ]

\* _calculateScores
CalculateScores(routes, preference, scen) ==
    IF Len(routes) = 0 THEN <<>>
    ELSE LET times == [i \in 1..Len(routes) |-> routes[i].totalDuration]
             costs == [i \in 1..Len(routes) |-> routes[i].totalCost]
             minTime == MinSeq(times)
             maxTime == MaxSeq(times)
             minCost == MinSeq(costs)
             maxCost == MaxSeq(costs)
             weights == GetWeights(preference, scen)
         IN  [ i \in 1..Len(routes) |->
                 LET timeScore == AxisScore(routes[i].totalDuration, minTime, maxTime)
                     costScore == AxisScore(routes[i].totalCost, minCost, maxCost)
                     comfortScore == CalculateComfortScore(routes[i])
                 IN  WithScores(routes[i],
                         [ time |-> RoundDiv(timeScore.n, timeScore.d),
                           cost |-> RoundDiv(costScore.n, costScore.d),
                           comfort |-> comfortScore,
                           total |-> TotalScore(timeScore, costScore, comfortScore,
                                                weights) ]) ]

\* _getRecommendReason
GetRecommendReason(route, scen) ==
    IF scen = "peak"
    THEN (IF route.type = "subway" THEN "subway steadier at peak" ELSE "fast, no jam")
    ELSE IF scen = "lateNight" THEN "safe and convenient"
    ELSE IF scen = "rushToCatch" THEN "fastest arrival"
    ELSE "best overall value"

\* { ...route, tags }
WithTags(route, tags) ==
    [ f \in DOMAIN route \cup {"tags"} |-> IF f = "tags" THEN tags ELSE route[f] ]

\* s in reverse order
Reverse(s) == [i \in 1..Len(s) |-> s[Len(s) + 1 - i]]

\* ByTime by a sort that is not stable: equal durations come out in the
\* reverse of the original order
ByTimeUnstable(scored) ==
    SortByKey(Reverse(scored),
              [i \in 1..Len(scored) |-> Reverse(scored)[i].totalDuration])

\* the three sorted copies of _recommend
ByTime(scored) == SortByKey(scored, [i \in 1..Len(scored) |-> scored[i].totalDuration])

ByCost(scored) == SortByKey(scored, [i \in 1..Len(scored) |-> scored[i].totalCost])

ByScore(scored) == SortByKey(scored, [i \in 1..Len(scored) |-> -scored[i].scores.total])

\* _recommend without its guard for the empty list, where spreading the
\* missing first element leaves an object of tags only
RecommendUnguarded(scored, scen, preference) ==
    LET n == Len(scored)
        first(s) == IF n = 0 THEN <<>> ELSE s[1]
    IN  [ fastest |-> WithTags(first(ByTime(scored)), [label |-> "fastest"]),
          cheapest |-> WithTags(first(ByCost(scored)), [label |-> "cheapest"]),
          recommended |-> WithTags(first(ByScore(scored)), [label |-> "recommended"]) ]

\* _recommend
Recommend(scored, scen, preference) ==
    IF Len(scored) = 0
    THEN [recommended |-> NoValue, fastest |-> NoValue, cheapest |-> NoValue]
    ELSE LET byTime == ByTime(scored)
             byCost == ByCost(scored)
             byScore == ByScore(scored)
             n == Len(scored)
         IN  [ fastest |-> WithTags(byTime[1],
                   [ label |-> "fastest",
                     minutes |-> byTime[n].totalDuration - byTime[1].totalDuration ]),
               cheapest |-> WithTags(byCost[1],
                   [ label |-> "cheapest",
                     yuan |-> RoundDiv(byCost[n].totalCost - byCost[1].totalCost, 10) ]),
               recommended |-> WithTags(byScore[1],
                   [ label |-> "recommended",
                     reason |-> GetRecommendReason(byScore[1], scen) ]) ]

\* the number of scored routes planRoute returns in allRoutes
ResultKeep == 10

\* the candidates planRoute returns as allRoutes: scoredRoutes.slice(0, 10)
ResultRoutes(scored) == SliceFirst(scored, ResultKeep)

\* the object planRoute returns (calculatedAt left out)
AssembleResult(all, scored, recommendation, scen, preference) ==
    [ recommended |-> recommendation.recommended,
      fastest |-> recommendation.fastest,
      cheapest |-> recommendation.cheapest,
      allRoutes |-> ResultRoutes(scored),
      meta |-> [ scenario |-> scen, preference |-> preference,
                 totalCandidates |-> Len(all) ] ]

----------------------------------------------------------------------------
(* One request: the HTTP handler (index.js planRoute, api handler) and      *)
(* RoutePlannerService.planRoute, from the request body to the response.   *)

\* the requests looked at: the test's origin (an airport), a plain and an
\* airport destination, one hour of each time-of-day class, each preference
Origins == { [lng |-> 1, lat |-> 1, name |-> <<"daxing", "ji", "chang">>] }

Destinations == { [lng |-> 2, lat |-> 2, name |-> <<"xiaoqu">>],
                  [lng |-> 3, lat |-> 3, name |-> <<"shoudu", "ji", "chang">>] }

Hours == {12, 18, 23}

Preferences == {"time", "cost", "balance"}

Stations == SubwayStationsAlongRoute

\* const nearbyStations of the start-taxi / end-taxi strategy
StartNearby == SliceFirst(Stations, NearbyCount)

EndNearby == SliceLast(Stations, NearbyCount)

\* const startStations / endStations of the both-taxi strategy
BothStart == SliceFirst(Stations, BothCount)

BothEnd == SliceLast(Stations, BothCount)

\* the idx-th pair of the nested loops of _generateBothTaxiRoutes
BothPair(i) ==
    [ start |-> BothStart[((i - 1) \div Len(BothEnd)) + 1],
      end   |-> BothEnd[((i - 1) % Len(BothEnd)) + 1] ]

\* a start / end of the request body without coordinates, with or without
\* a name
Malformed == { [name |-> <<"xiaoqu">>], [note |-> <<"x">>] }

\* the hour and preference sent along with a malformed or missing point
PlainHour == 12

PlainPreference == "balance"

\* the request bodies looked at: well-formed ones (every hour and preference
\* to the plain destination, every hour to the airport), ones whose start or
\* end has no coordinates, ones without a start or an end
Bodies ==
    [ start : Origins, end : {d \in Destinations : Len(d.name) = 1},
      hour : Hours, preference : Preferences ]
    \cup [ start : Origins, end : {d \in Destinations : Len(d.name) > 1},
           hour : Hours, preference : {PlainPreference} ]
    \cup { [ start |-> m, end |-> d, hour |-> PlainHour, preference |-> PlainPreference ] :
              m \in Malformed, d \in {CHOOSE d \in Destinations : Len(d.name) = 1} }
    \cup { [ start |-> o, end |-> m, hour |-> PlainHour, preference |-> PlainPreference ] :
              o \in Origins, m \in {[note |-> <<"x">>]} }
    \cup { [ start |-> NoValue, end |-> d, hour |-> PlainHour, preference |-> PlainPreference ] :
              d \in {CHOOSE d \in Destinations : Len(d.name) = 1} }
    \cup { [ start |-> o, end |-> NoValue, hour |-> PlainHour, preference |-> PlainPreference ] :
              o \in Origins }

\* start.lng, start.lat: undefined when the property is missing
Property(obj, f) == IF f \in DOMAIN obj THEN obj[f] ELSE NoValue

\* the names `start.name || '起点'` and `end.name || '终点'` default to
DefaultStartName == <<"qi", "dian">>

DefaultEndName == <<"zhong", "dian">>

\* the handler's conversion of the body into planRoute's params
ConvertParams(body) ==
    [ origin |-> [ lng |-> Property(body.start, "lng"),
                   lat |-> Property(body.start, "lat"),
                   name |-> IF "name" \in DOMAIN body.start THEN body.start.name
                            ELSE DefaultStartName ],
      destination |-> [ lng |-> Property(body.end, "lng"),
                        lat |-> Property(body.end, "lat"),
                        name |-> IF "name" \in DOMAIN body.end THEN body.end.name
                                 ELSE DefaultEndName ],
      hour |-> body.hour,
      preference |-> body.preference ]

\* the handler's answer to a body without start or end
BadRequest == [statusCode |-> 400, code |-> 400]

\* the handler's answer to a planned request
Success(data) == [statusCode |-> 200, code |-> 0, data |-> data]

Init ==
    /\ pc = "request"
    /\ input \in Bodies
    /\ output = NoValue
    /\ params = NoValue
    /\ apiKey \in ApiKeys
    /\ live = 0
    /\ scenario = "unset"
    /\ allRoutes = <<>>
    /\ mixedRoutes = <<>>
    /\ idx = 0
    /\ tried = <<>>
    /\ scoredRoutes = <<>>
    /\ result = NoValue

\* the handler up to its call of planRoute: the only validation is that
\* start and end are there
HandlerStep ==
    /\ pc = "request"
    /\ IF input.start = NoValue \/ input.end = NoValue
       THEN /\ output' = BadRequest
            /\ pc' = "rejected"
            /\ UNCHANGED params
       ELSE /\ params' = ConvertParams(input)
            /\ pc' = "start"
            /\ UNCHANGED output
    /\ UNCHANGED <<apiKey, live, scenario, allRoutes, mixedRoutes, idx, tried,
                   scoredRoutes, result, input>>

\* planRoute, step 1
DetectStep ==
    /\ pc = "start"
    /\ scenario' = DetectScenario(params)
    /\ pc' = "subway"
    /\ UNCHANGED <<params, apiKey, live, allRoutes, mixedRoutes, idx, tried,
                   scoredRoutes, result, input, output>>

\* _generateAllRoutes, 2.1: a rejection is caught by the one try block that
\* spans 2.1 to 2.3, which ends the generation
SubwayStep ==
    /\ pc = "subway"
    /\ \E resp \in Answers(TransitResponses, apiKey, live) :
         LET subway == GetSubwayRoutes(apiKey, resp)
         IN  /\ live' = live + LiveCount(<<resp>>)
             /\ IF IsThrow(subway)
                THEN /\ pc' = "score"
                     /\ UNCHANGED <<allRoutes, tried>>
                ELSE /\ pc' = "taxi"
                     /\ allRoutes' = allRoutes \o SubwayCandidates(subway.value)
                     /\ tried' = Append(tried,
                            [ id |-> <<"pure_subway">>,
                              failed |-> apiKey # KeyUnset /\ resp.kind # "ok",
                              count |-> Len(subway.value) ])
    /\ UNCHANGED <<params, apiKey, scenario, mixedRoutes, idx,
                   scoredRoutes, result, input, output>>

\* _generateAllRoutes, 2.2
TaxiStep ==
    /\ pc = "taxi"
    /\ \E resp \in Answers(DrivingResponses, apiKey, live) :
         LET taxiRoute == GenerateTaxiRoute(params.origin, params.destination,
                                            GetDrivingRoute(apiKey, resp), scenario)
         IN  /\ live' = live + LiveCount(<<resp>>)
             /\ IF IsThrow(taxiRoute)
                THEN /\ pc' = "score"
                     /\ UNCHANGED <<allRoutes, idx, tried>>
                ELSE /\ pc' = "startTaxi"
                     /\ idx' = 1
                     /\ allRoutes' = IF taxiRoute = NoValue THEN allRoutes
                                     ELSE Append(allRoutes, taxiRoute)
                     /\ tried' = Append(tried,
                            [ id |-> <<"taxi_full">>,
                              failed |-> apiKey # KeyUnset /\ resp.kind # "ok",
                              count |-> IF GetDrivingRoute(apiKey, resp) = Fulfilled(NoValue)
                                        THEN 0 ELSE 1 ])
    /\ UNCHANGED <<params, apiKey, scenario, mixedRoutes,
                   scoredRoutes, result, input, output>>

\* whether every leg of a candidate was fetched: each driving estimate is
\* there and the provider has an itinerary
LegsFetched(drivings, subway) ==
    /\ \A i \in 1..Len(drivings) :
         ~IsThrow(drivings[i]) /\ drivings[i].value # NoValue
    /\ ~IsThrow(subway)
    /\ Len(subway.value) > 0

\* one iteration of the loop of _generateStartTaxiRoutes
StartTaxiStep ==
    /\ pc = "startTaxi"
    /\ \E dresp \in Answers(DrivingResponses, apiKey, live) :
       \E tresp \in Answers(TransitResponses, apiKey, live + LiveCount(<<dresp>>)) :
         LET station == StartNearby[idx]
             driving == GetDrivingRoute(apiKey, dresp)
             subway  == GetSubwayRoutes(apiKey, tresp)
             body    == StartTaxiBody(params.origin, params.destination, station,
                                      driving, subway)
             next    == NextIteration(idx, Len(StartNearby), body)
         IN  /\ live' = live + LiveCount(<<dresp, tresp>>)
             /\ mixedRoutes' = PushOrSkip(mixedRoutes, body)
             /\ tried' = Append(tried,
                    [ id |-> <<"mixed_start_taxi">> \o station.name,
                      fetched |-> LegsFetched(<<driving>>, subway) ])
             /\ IF next > Len(StartNearby)
                THEN pc' = "endTaxi" /\ idx' = 1
                ELSE pc' = pc /\ idx' = next
    /\ UNCHANGED <<params, apiKey, scenario, allRoutes, scoredRoutes, result,
                   input, output>>

\* one iteration of the loop of _generateEndTaxiRoutes
EndTaxiStep ==
    /\ pc = "endTaxi"
    /\ \E tresp \in Answers(TransitResponses, apiKey, live) :
       \E dresp \in Answers(DrivingResponses, apiKey, live + LiveCount(<<tresp>>)) :
         LET station == EndNearby[idx]
             subway  == GetSubwayRoutes(apiKey, tresp)
             driving == GetDrivingRoute(apiKey, dresp)
             body    == EndTaxiBody(params.origin, params.destination, station,
                                    subway, driving)
             next    == NextIteration(idx, Len(EndNearby), body)
         IN  /\ live' = live + LiveCount(<<tresp, dresp>>)
             /\ mixedRoutes' = PushOrSkip(mixedRoutes, body)
             /\ tried' = Append(tried,
                    [ id |-> <<"mixed_end_taxi">> \o station.name,
                      fetched |-> LegsFetched(<<driving>>, subway) ])
             /\ IF next > Len(EndNearby)
                THEN pc' = "bothTaxi" /\ idx' = 1
                ELSE pc' = pc /\ idx' = next
    /\ UNCHANGED <<params, apiKey, scenario, allRoutes, scoredRoutes, result,
                   input, output>>

\* one iteration of the inner loop of _generateBothTaxiRoutes
BothTaxiStep ==
    /\ pc = "bothTaxi"
    /\ \E d1 \in Answers(DrivingResponses, apiKey, live) :
       \E tresp \in Answers(TransitResponses, apiKey, live + LiveCount(<<d1>>)) :
       \E d2 \in Answers(DrivingResponses, apiKey, live + LiveCount(<<d1, tresp>>)) :
         LET pair     == BothPair(idx)
             last     == Len(BothStart) * Len(BothEnd)
             driving1 == GetDrivingRoute(apiKey, d1)
             subway   == GetSubwayRoutes(apiKey, tresp)
             driving2 == GetDrivingRoute(apiKey, d2)
             body     == BothTaxiBody(params.origin, params.destination, pair.start,
                                      pair.end, driving1, subway, driving2)
             next     == NextIteration(idx, last, body)
         IN  /\ live' = live + LiveCount(<<d1, tresp, d2>>)
             /\ mixedRoutes' = PushOrSkip(mixedRoutes, body)
             /\ tried' = Append(tried,
                    [ id |-> <<"mixed_both_taxi">> \o pair.start.name \o pair.end.name,
                      fetched |-> LegsFetched(<<driving1, driving2>>, subway) ])
             /\ IF next > last
                THEN pc' = "prune" /\ idx' = 0
                ELSE pc' = pc /\ idx' = next
    /\ UNCHANGED <<params, apiKey, scenario, allRoutes, scoredRoutes, result,
                   input, output>>

\* generateMixedRoutes returns the pruned routes, _generateAllRoutes pushes them
PruneStep ==
    /\ pc = "prune"
    /\ allRoutes' = allRoutes \o PruneRoutes(mixedRoutes)
    /\ pc' = "score"
    /\ UNCHANGED <<params, apiKey, live, scenario, mixedRoutes, idx, tried,
                   scoredRoutes, result, input, output>>

\* planRoute, step 3
ScoreStep ==
    /\ pc = "score"
    /\ scoredRoutes' = CalculateScores(allRoutes, params.preference, scenario)
    /\ pc' = "recommend"
    /\ UNCHANGED <<params, apiKey, live, scenario, allRoutes, mixedRoutes, idx,
                   tried, result, input, output>>

\* planRoute, step 4 and the return
ReturnStep ==
    /\ pc = "recommend"
    /\ result' = AssembleResult(allRoutes, scoredRoutes,
                     Recommend(scoredRoutes, scenario, params.preference),
                     scenario, params.preference)
    /\ pc' = "respond"
    /\ UNCHANGED <<params, apiKey, live, scenario, allRoutes, mixedRoutes, idx,
                   tried, scoredRoutes, input, output>>

\* the handler wraps planRoute's result in its response
RespondStep ==
    /\ pc = "respond"
    /\ output' = Success(result)
    /\ pc' = "done"
    /\ UNCHANGED <<params, apiKey, live, scenario, allRoutes, mixedRoutes, idx,
                   tried, scoredRoutes, result, input>>

Next ==
    \/ HandlerStep
    \/ DetectStep
    \/ SubwayStep
    \/ TaxiStep
    \/ StartTaxiStep
    \/ EndTaxiStep
    \/ BothTaxiStep
    \/ PruneStep
    \/ ScoreStep
    \/ ReturnStep
    \/ RespondStep

Spec == Init /\ [][Next]_vars

----------------------------------------------------------------------------
(* The same request with a provider that answers throughout: every station *)
(* and station pair is tried, the driving estimate of the first ones       *)
(* varies.  From _generateAllRoutes (after step 1) to the response.        *)

\* the number of stations (in the order tried) whose driving estimate varies
MaxVariedSlots == 2

\* what the provider answers for the pure strategies and for a hybrid's
\* driving leg: a failed request falls back to the mock data
PureTransit == { [kind |-> "status0"], [kind |-> "ok", transits |-> <<RawSlow>>],
                 [kind |-> "ok", transits |-> <<RawSlow, RawFast, RawSlow, RawFast>>] }

PureDriving == { [kind |-> "status0"], [kind |-> "error"] }

LegDriving(slot) ==
    IF slot <= MaxVariedSlots
    THEN { [kind |-> "error"], [kind |-> "ok", path |-> PathMid],
           [kind |-> "ok", path |-> PathFar] }
    ELSE { [kind |-> "error"] }

\* the stations and pairs in the order generateMixedRoutes tries them
SlotCount == Len(StartNearby) + Len(EndNearby) + Len(BothStart) * Len(BothEnd)

\* the candidate of a slot, given the driving estimate of its (first) taxi
\* leg; the other legs get the fallback data
SlotBody(origin, destination, slot, driving) ==
    LET subway == GetSubwayRoutes("accepted", [kind |-> "error"])
        other  == GetDrivingRoute("accepted", [kind |-> "error"])
    IN  IF slot <= Len(StartNearby)
        THEN StartTaxiBody(origin, destination, StartNearby[slot], driving, subway)
        ELSE IF slot <= Len(StartNearby) + Len(EndNearby)
        THEN EndTaxiBody(origin, destination, EndNearby[slot - Len(StartNearby)],
                         subway, driving)
        ELSE LET pair == BothPair(slot - Len(StartNearby) - Len(EndNearby))
             IN  BothTaxiBody(origin, destination, pair.start, pair.end,
                              driving, subway, other)

\* the state after planRoute's step 1, for a well-formed request
InitGather ==
    /\ pc = "pure"
    /\ input \in [ start : Origins,
                   end : {d \in Destinations : Len(d.name) = 1},
                   hour : Hours, preference : Preferences ]
    /\ output = NoValue
    /\ params = ConvertParams(input)
    /\ apiKey = "accepted"
    /\ live = 0
    /\ scenario = DetectScenario(ConvertParams(input))
    /\ allRoutes = <<>>
    /\ mixedRoutes = <<>>
    /\ idx = 0
    /\ tried = <<>>
    /\ scoredRoutes = <<>>
    /\ result = NoValue

\* _generateAllRoutes, 2.1 and 2.2
PureStep ==
    /\ pc = "pure"
    /\ \E tresp \in PureTransit, dresp \in PureDriving :
         LET subway    == GetSubwayRoutes(apiKey, tresp)
             taxiRoute == GenerateTaxiRoute(params.origin, params.destination,
                                            GetDrivingRoute(apiKey, dresp), scenario)
         IN  allRoutes' = SubwayCandidates(subway.value)
                            \o (IF taxiRoute = NoValue THEN <<>> ELSE <<taxiRoute>>)
    /\ idx' = 1
    /\ pc' = "hybrids"
    /\ UNCHANGED <<params, apiKey, live, scenario, mixedRoutes, tried,
                   scoredRoutes, result, input, output>>

\* one iteration of one of the three loops of generateMixedRoutes
HybridStep ==
    /\ pc = "hybrids"
    /\ \E dresp \in LegDriving(idx) :
         mixedRoutes' = PushOrSkip(mixedRoutes,
                            SlotBody(params.origin, params.destination, idx,
                                     GetDrivingRoute(apiKey, dresp)))
    /\ IF idx = SlotCount
       THEN pc' = "prune" /\ idx' = 0
       ELSE pc' = pc /\ idx' = idx + 1
    /\ UNCHANGED <<params, apiKey, live, scenario, allRoutes, tried,
                   scoredRoutes, result, input, output>>

NextGather ==
    \/ PureStep
    \/ HybridStep
    \/ PruneStep
    \/ ScoreStep
    \/ ReturnStep
    \/ RespondStep

SpecGather == InitGather /\ [][NextGather]_vars

----------------------------------------------------------------------------
(* Functions run alone, on arguments drawn from bounded sets.              *)

\* no request is being planned
NoRequest ==
    /\ params = NoValue
    /\ apiKey = KeyUnset
    /\ live = 0
    /\ scenario = "unset"
    /\ allRoutes = <<>>
    /\ mixedRoutes = <<>>
    /\ idx = 0
    /\ tried = <<>>
    /\ scoredRoutes = <<>>
    /\ result = NoValue

RequestVars == <<params, apiKey, live, scenario, allRoutes, mixedRoutes, idx,
                 tried, scoredRoutes, result>>

\* _detectScenario ---------------------------------------------------------

\* the longest destination name looked at
MaxNameLen == 3

Chars == {"ji", "chang", "huo", "che", "zhan", "x"}

Names == UNION { [1..n -> Chars] : n \in 0..MaxNameLen }

ScenarioOrigins == { [name |-> <<"x">>], [name |-> Airport], [name |-> TrainStation] }

ScenarioArgs ==
    { [origin |-> o, destination |-> d, hour |-> h] :
        o \in ScenarioOrigins,
        d \in { [name |-> n] : n \in Names } \cup { [lng |-> 1, lat |-> 1] },
        h \in 0..23 }

InitScenario ==
    /\ pc = "call"
    /\ input \in ScenarioArgs
    /\ output = NoValue
    /\ NoRequest

RunDetectScenario ==
    /\ pc = "call"
    /\ output' = [label |-> DetectScenario(input)]
    /\ pc' = "returned"
    /\ UNCHANGED <<input, RequestVars>>

NextScenario == RunDetectScenario

SpecScenario == InitScenario /\ [][NextScenario]_vars

\* _calculateScores and _recommend -------------------------------------------

\* the most candidates scored together
MaxCand == 3

\* totalDuration (minutes) and totalCost (tenths of a yuan) of a candidate
CandDurations == {65, 83, 146}

CandCosts == {90, 1647, 1737}

PlainOrigin == [lng |-> 1, lat |-> 1, name |-> <<"x">>]

PlainDestination == [lng |-> 2, lat |-> 2, name |-> <<"y">>]

\* A candidate with the given totals, the i-th of its list: the cheapest is
\* a pure-subway route, the dearest a hybrid, the other a pure-taxi route.
Candidate(i, d, c) ==
    LET taxi == GenerateTaxiRoute(PlainOrigin, PlainDestination,
                                  Fulfilled(MockDrivingRoute), "routine")
        hybrid == StartTaxiBody(PlainOrigin, PlainDestination, Stations[2],
                                Fulfilled(MockDrivingRoute), Fulfilled(MockSubwayRoutes))
    IN  [ id |-> <<"candidate", <<"1", "2", "3", "4", "5">>[i]>>,
          type |-> IF c = 90 THEN "subway" ELSE IF c = 1647 THEN "taxi" ELSE "mixed",
          segments |-> IF c = 90 THEN MockSubwayRoutes[1].segments
                       ELSE IF c = 1647 THEN taxi.segments ELSE hybrid.segments,
          totalDuration |-> d, totalCost |-> c, totalDistance |-> 45000 ]

CandidateLists ==
    UNION { { [i \in 1..n |-> Candidate(i, f[i][1], f[i][2])] :
                f \in [1..n -> CandDurations \X CandCosts] } : n \in 0..MaxCand }

Scenarios == {"rushToCatch", "lateNight", "peak", "routine"}

InitScore ==
    /\ pc = "call"
    /\ input \in [ routes : CandidateLists, preference : Preferences,
                   scenario : Scenarios ]
    /\ output = NoValue
    /\ NoRequest

RunCalculateScores ==
    /\ pc = "call"
    /\ output' = [ scored |-> CalculateScores(input.routes, input.preference,
                                              input.scenario) ]
    /\ pc' = "scored"
    /\ UNCHANGED <<input, RequestVars>>

RunRecommend ==
    /\ pc = "scored"
    /\ output' = [ scored |-> output.scored,
                   recommendation |-> Recommend(output.scored, input.scenario,
                                                input.preference) ]
    /\ pc' = "recommended"
    /\ UNCHANGED <<input, RequestVars>>

NextScore == RunCalculateScores \/ RunRecommend

SpecScore == InitScore /\ [][NextScore]_vars

\* _pruneRoutes ------------------------------------------------------------

\* the longest list pruned, and the length up to which a list may hold a
\* candidate with a short taxi leg
MaxPruneLen == 11

MaxVaried == 3

\* the hybrid of station 2 built from a driving estimate
Hybrid(path) ==
    StartTaxiBody(PlainOrigin, PlainDestination, Stations[2],
                  Fulfilled(path), Fulfilled(MockSubwayRoutes))

\* the i-th candidate of a list: `shape` picks its taxi leg
PruneCandidate(i, shape) ==
    LET r == IF shape = "short" THEN Hybrid(ParseDrivingRoute(PathShort))
             ELSE IF shape = "mid" THEN Hybrid(ParseDrivingRoute(PathMid))
             ELSE Hybrid(MockDrivingRoute)
    IN  [r EXCEPT !.id = <<"mixed", shape, <<"1", "2", "3", "4", "5", "6", "7", "8",
                                             "9", "10", "11", "12", "13">>[i]>>]

InitPrune ==
    /\ pc = "build"
    /\ input = <<>>
    /\ output = NoValue
    /\ NoRequest

\* the caller gathers one more hybrid candidate
AddCandidate ==
    /\ pc = "build"
    /\ Len(input) < MaxPruneLen
    /\ \E shape \in (IF Len(input) < MaxVaried THEN {"short", "mid", "long"}
                     ELSE {"mid", "long"}) :
         input' = Append(input, PruneCandidate(Len(input) + 1, shape))
    /\ UNCHANGED <<pc, output, RequestVars>>

RunPruneRoutes ==
    /\ pc = "build"
    /\ output' = [routes |-> PruneRoutes(input)]
    /\ pc' = "returned"
    /\ UNCHANGED <<input, RequestVars>>

NextPrune == AddCandidate \/ RunPruneRoutes

SpecPrune == InitPrune /\ [][NextPrune]_vars

\* both _estimateTaxiCost ---------------------------------------------------

\* the distances (whole kilometres) and durations (minutes) estimated reach
\* this far on either side of zero
MaxFareKm == 5

MaxFareMinutes == 30

FareDistances == { 1000 * k : k \in -MaxFareKm..MaxFareKm }

FareDurations == -MaxFareMinutes..MaxFareMinutes

InitFare ==
    /\ pc = "call"
    /\ input \in [ distance : FareDistances, duration : FareDurations,
                   scenario : Scenarios ]
    /\ output = NoValue
    /\ NoRequest

\* the orchestrator's estimator
RunEstimateTaxiCost ==
    /\ pc = "call"
    /\ output' = [ fare |-> EstimateTaxiCost(input.distance, input.duration,
                                            input.scenario) ]
    /\ pc' = "orchestrator"
    /\ UNCHANGED <<input, RequestVars>>

\* the hybrid generator's estimator (it has no scenario)
RunMixedEstimateTaxiCost ==
    /\ pc = "call"
    /\ output' = [ fare |-> MixedEstimateTaxiCost(input.distance, input.duration) ]
    /\ pc' = "generator"
    /\ UNCHANGED <<input, RequestVars>>

NextFare == RunEstimateTaxiCost \/ RunMixedEstimateTaxiCost

SpecFare == InitFare /\ [][NextFare]_vars

----------------------------------------------------------------------------
(* Properties.                                                             *)

\* a route without the tags _recommend adds
StripTags(r) == [f \in DOMAIN r \ {"tags"} |-> r[f]]

\* the first position of s holding v
FirstAt(s, v) == CHOOSE i \in 1..Len(s) : s[i] = v /\ \A j \in 1..(i - 1) : s[j] # v

\* the least / greatest element of a nonempty sequence of numbers
Least(s) == CHOOSE v \in {s[i] : i \in 1..Len(s)} : \A i \in 1..Len(s) : v <= s[i]

Greatest(s) == CHOOSE v \in {s[i] : i \in 1..Len(s)} : \A i \in 1..Len(s) : v >= s[i]

Durations(rs) == [i \in 1..Len(rs) |-> rs[i].totalDuration]

Costs(rs) == [i \in 1..Len(rs) |-> rs[i].totalCost]

Totals(rs) == [i \in 1..Len(rs) |-> rs[i].scores.total]

\* C1: for a nonempty scored set, _recommend's fastest is the first candidate
\* (in the original order) of least totalDuration among all scored candidates,
\* cheapest the first of least totalCost, recommended the first of greatest
\* scores.total.
C1_RecommendPicksFirstExtreme ==
    (pc = "recommended" /\ Len(output.scored) > 0) =>
        LET sc  == output.scored
            rec == output.recommendation
        IN  /\ StripTags(rec.fastest) = sc[FirstAt(Durations(sc), Least(Durations(sc)))]
            /\ StripTags(rec.cheapest) = sc[FirstAt(Costs(sc), Least(Costs(sc)))]
            /\ StripTags(rec.recommended) = sc[FirstAt(Totals(sc), Greatest(Totals(sc)))]

\* C1 witness: three candidates, the second and third tie on the least
\* duration and on the least cost, and a later one ties on the greatest total
C1_Witness ==
    /\ pc = "recommended"
    /\ Len(output.scored) = 3
    /\ LET sc == output.scored
       IN  /\ sc[2].totalDuration = sc[3].totalDuration
           /\ sc[2].totalDuration < sc[1].totalDuration
           /\ sc[2].totalCost = sc[3].totalCost
           /\ sc[2].totalCost < sc[1].totalCost
           /\ sc[2].scores.total = sc[3].scores.total
           /\ output.recommendation.fastest.id = sc[2].id
           /\ output.recommendation.cheapest.id = sc[2].id
           /\ output.recommendation.recommended.id = sc[2].id

\* C2: on each axis the candidate of least raw value scores 100, the one of
\* greatest raw value scores 0 unless all candidates tie (then all score
\* 100), and every score lies in 0..100.
C2_AxisScores ==
    (pc = "scored" /\ Len(input.routes) > 0) =>
        LET rs == input.routes
            sc == output.scored
        IN  /\ Len(sc) = Len(rs)
            /\ \A i \in 1..Len(rs) :
                 /\ sc[i].scores.time \in 0..100
                 /\ sc[i].scores.cost \in 0..100
                 /\ rs[i].totalDuration = Least(Durations(rs)) => sc[i].scores.time = 100
                 /\ rs[i].totalCost = Least(Costs(rs)) => sc[i].scores.cost = 100
                 /\ (rs[i].totalDuration = Greatest(Durations(rs))
                     /\ Greatest(Durations(rs)) # Least(Durations(rs)))
                        => sc[i].scores.time = 0
                 /\ (rs[i].totalCost = Greatest(Costs(rs))
                     /\ Greatest(Costs(rs)) # Least(Costs(rs)))
                        => sc[i].scores.cost = 0

\* C2 witness: three durations (least, between, greatest) with a time score
\* strictly between 0 and 100, and all three costs equal
C2_Witness ==
    /\ pc = "scored"
    /\ Len(output.scored) = 3
    /\ LET sc == output.scored
       IN  /\ sc[1].scores.time = 0
           /\ sc[2].scores.time > 0 /\ sc[2].scores.time < 100
           /\ sc[3].scores.time = 100
           /\ sc[1].totalCost = sc[2].totalCost /\ sc[2].totalCost = sc[3].totalCost
           /\ \A i \in 1..3 : sc[i].scores.cost = 100

\* scores.total, in tenths, as the weighted sum of the three scores with the
\* fractional weights and no further division
WeightedTotal(rs, i, preference, scen) ==
    LET ts == AxisScore(rs[i].totalDuration, Least(Durations(rs)), Greatest(Durations(rs)))
        cs == AxisScore(rs[i].totalCost, Least(Costs(rs)), Greatest(Costs(rs)))
        w  == GetWeights(preference, scen)
    IN  RoundDiv(ts.n * w.time * cs.d + cs.n * w.cost * ts.d
                 + CalculateComfortScore(rs[i]) * w.comfort * ts.d * cs.d,
                 ts.d * cs.d)

\* C3: scores.total is the weighted sum timeScore*w_time + costScore*w_cost +
\* comfortScore*w_comfort of the fractional weights with no division by 100,
\* so a candidate scoring 100 on all three has total 100 (1000 tenths).
C3_TotalIsWeightedSum ==
    pc = "scored" =>
        \A i \in 1..Len(output.scored) :
            /\ output.scored[i].scores.total
                 = WeightedTotal(input.routes, i, input.preference, input.scenario)
            /\ (/\ output.scored[i].scores.time = 100
                /\ output.scored[i].scores.cost = 100
                /\ output.scored[i].scores.comfort = 100)
                  => output.scored[i].scores.total = 1000


\* the candidates of rs of one type, in order
OfType(rs, type) == FilterBy(rs, [i \in 1..Len(rs) |-> rs[i].type = type])

Ids(rs) == [i \in 1..Len(rs) |-> rs[i].id]

IdSet(rs) == {rs[i].id : i \in 1..Len(rs)}

\* C4: allRoutes of the result holds the (at most) 10 scored candidates of
\* highest scores.total: no candidate left out has a strictly higher total
\* than one kept; meta.totalCandidates counts the candidates before the cut.
C4_AllRoutesAreTopTen ==
    pc = "done" =>
        /\ result.meta.totalCandidates = Len(scoredRoutes)
        /\ Len(result.allRoutes) = (IF Len(scoredRoutes) < 10 THEN Len(scoredRoutes) ELSE 10)
        /\ IdSet(result.allRoutes) \subseteq IdSet(scoredRoutes)
        /\ \A i \in 1..Len(scoredRoutes) :
             scoredRoutes[i].id \notin IdSet(result.allRoutes) =>
                \A k \in 1..Len(result.allRoutes) :
                    scoredRoutes[i].scores.total <= result.allRoutes[k].scores.total

\* the sum of one field over the segments that carry it
SegmentSum(r, field) ==
    SumSeq([ i \in 1..Len(r.segments) |->
               IF field \in DOMAIN r.segments[i] THEN r.segments[i][field] ELSE 0 ])

Near(a, b) == a - b <= 1 /\ b - a <= 1

\* C5: every itinerary of the candidate set has totalDuration, totalCost and
\* totalDistance equal to the sums of its segments' duration, cost and
\* distance, within one rounding step.
C5_TotalsAreSegmentSums ==
    \A i \in 1..Len(allRoutes) :
        /\ Near(allRoutes[i].totalDuration, SegmentSum(allRoutes[i], "duration"))
        /\ Near(allRoutes[i].totalCost, SegmentSum(allRoutes[i], "cost"))
        /\ Near(allRoutes[i].totalDistance, SegmentSum(allRoutes[i], "distance"))

C7_TaxiFullFareUsesScenario ==
    \A i \in 1..Len(allRoutes) :
        allRoutes[i].id = <<"taxi_full">> =>
            allRoutes[i].totalCost
              = EstimateTaxiCost(allRoutes[i].segments[1].distance,
                                 allRoutes[i].segments[1].duration, scenario)

\* name holds word as a run of consecutive characters
HasWord(name, word) ==
    \E a \in 0..Len(name) : \E b \in a..Len(name) : SubSeq(name, a + 1, b) = word

\* C8: _detectScenario returns rushToCatch whenever the destination name
\* holds an airport or train-station keyword, at every hour; otherwise
\* lateNight for hours 23 and 0..4; otherwise peak for hours 7..9 and 17..19;
\* otherwise routine; and the origin has no influence on the label.
C8_ScenarioRules ==
    pc = "returned" =>
        LET d   == input.destination
            h   == input.hour
            hub == /\ "name" \in DOMAIN d
                   /\ (HasWord(d.name, Airport) \/ HasWord(d.name, TrainStation))
        IN  /\ output.label = (IF hub THEN "rushToCatch"
                               ELSE IF h \in {23, 0, 1, 2, 3, 4} THEN "lateNight"
                               ELSE IF h \in {7, 8, 9, 17, 18, 19} THEN "peak"
                               ELSE "routine")
            /\ \A o \in ScenarioOrigins :
                 DetectScenario([input EXCEPT !.origin = o]) = output.label

\* C8 witness: an airport destination at hour 23, from a plain origin
C8_Witness ==
    /\ pc = "returned"
    /\ input.hour = 23
    /\ input.origin.name = <<"x">>
    /\ "name" \in DOMAIN input.destination
    /\ Includes(input.destination.name, Airport)
    /\ output.label = "rushToCatch"

GenerationOver == pc \in {"score", "recommend", "respond", "done"}

\* the hybrid candidates tried by one full pass of generateMixedRoutes, in order
SlotIds ==
    [i \in 1..Len(StartNearby) |-> <<"mixed_start_taxi">> \o StartNearby[i].name]
    \o [i \in 1..Len(EndNearby) |-> <<"mixed_end_taxi">> \o EndNearby[i].name]
    \o [i \in 1..(Len(BothStart) * Len(BothEnd)) |->
          <<"mixed_both_taxi">> \o BothPair(i).start.name \o BothPair(i).end.name]

\* C9: in candidate generation a failure of one sub-strategy does not abort
\* the others: whatever the provider answers to the pure-transit and the
\* pure-taxi query (a failed request included), the taxi candidate and every
\* hybrid are still tried and returned, and what was generated is kept.
C9_SubStrategiesIndependent ==
    GenerationOver =>
        /\ Len(tried) = 2 + Len(SlotIds)
        /\ tried[1].id = <<"pure_subway">>
        /\ tried[2].id = <<"taxi_full">>
        /\ Len(OfType(allRoutes, "subway")) = tried[1].count
        /\ Len(OfType(allRoutes, "taxi")) = tried[2].count
        /\ (tried[2].count = 1 <=> <<"taxi_full">> \in IdSet(allRoutes))
        /\ OfType(allRoutes, "mixed") = PruneRoutes(mixedRoutes)
        /\ allRoutes = OfType(allRoutes, "subway") \o OfType(allRoutes, "taxi")
                       \o OfType(allRoutes, "mixed")

\* C9 witness: the pure-transit request failed and the pure-taxi query gave
\* no estimate, or the other way round, and hybrids were still returned
C9_Witness ==
    /\ GenerationOver
    /\ Len(tried) >= 2
    /\ tried[1].failed
    /\ tried[2].failed
    /\ tried[2].count = 0
    /\ Len(OfType(allRoutes, "subway")) > 0
    /\ Len(OfType(allRoutes, "mixed")) > 0

\* the entries of `tried` for the hybrid candidates
MixedTried == SubSeq(tried, 3, Len(tried))

C11_ZeroCandidatesGiveNulls ==
    /\ (pc \in {"recommend", "respond", "done"} /\ allRoutes = <<>>) =>
            scoredRoutes = <<>>
    /\ (pc \in {"respond", "done"} /\ allRoutes = <<>>) =>
            /\ result.recommended = NoValue
            /\ result.fastest = NoValue
            /\ result.cheapest = NoValue
            /\ result.allRoutes = <<>>
            /\ result.meta.totalCandidates = 0
    /\ (pc = "done" /\ allRoutes = <<>>) => output = Success(result)

\* a request answered after all three sub-strategies, every station and
\* every station pair were tried and none of them gave a candidate
C11_Witness ==
    /\ pc = "done"
    /\ allRoutes = <<>>
    /\ Len(tried) = 2 + Len(StartNearby) + Len(EndNearby) + Len(BothStart) * Len(BothEnd)
    /\ tried[1].count = 0
    /\ tried[2].count = 0
    /\ \A i \in 3..Len(tried) : ~tried[i].fetched
    /\ result.meta.totalCandidates = 0

\* a request body whose start or end is there but lacks a coordinate
MalformedBody(body) ==
    \E pt \in {body.start, body.end} :
        pt # NoValue /\ ~({"lng", "lat"} \subseteq DOMAIN pt)

\* C12: a request whose origin or destination is there but has no lng / lat
\* fails with an invalid-input error (the handler's only caller error is its
\* 400 answer), and no sub-strategy has asked the provider for a transit
\* itinerary or a driving estimate before that (without a key no request
\* goes out at all).
C12_MalformedInputFailsFast ==
    MalformedBody(input) =>
        /\ apiKey # KeyUnset => tried = <<>>
        /\ pc \in {"done", "rejected"} => output = BadRequest

\* C13: for a distance <= 0 and / or a duration <= 0, the fare estimated by
\* either estimator is at least the base fare of 13 yuan (130 tenths), and so
\* never negative.
C13_FareFloor ==
    (pc \in {"orchestrator", "generator"}
        /\ (input.distance <= 0 \/ input.duration <= 0)) =>
            output.fare >= BaseFare \div TenthUnit

\* the permutations of 1..n
Orders(n) == { p \in [1..n -> 1..n] : \A i, j \in 1..n : p[i] = p[j] => i = j }

\* the scores of scored candidates, in their order
ScoresOf(rs) == [i \in 1..Len(rs) |-> rs[i].scores]

\* C14: _calculateScores gives a candidate the same scores (time, cost,
\* comfort, total) wherever it stands in the list: scoring any permutation of
\* the candidates, with the same preference and scenario, scores each
\* candidate as the unpermuted run does.
C14_ScoresOrderInvariant ==
    pc = "scored" =>
        \A p \in Orders(Len(input.routes)) :
            LET permuted == [i \in 1..Len(input.routes) |-> input.routes[p[i]]]
            IN  ScoresOf(CalculateScores(permuted, input.preference, input.scenario))
                  = [i \in 1..Len(input.routes) |-> output.scored[p[i]].scores]

\* three candidates scored, the first the slowest and dearest, the last the
\* fastest and cheapest, so that the scores differ along the list
C14_Witness ==
    /\ pc = "scored"
    /\ Len(input.routes) = 3
    /\ input.routes[1].totalDuration > input.routes[2].totalDuration
    /\ input.routes[2].totalDuration > input.routes[3].totalDuration
    /\ input.routes[1].totalCost > input.routes[3].totalCost
    /\ output.scored[1].scores.time = 0
    /\ output.scored[3].scores.time = 100
    /\ output.scored[1].scores.total < output.scored[3].scores.total

\* C15: whatever itineraries the transit provider returns, the candidates
\* gathered by _generateAllRoutes hold at most 3 pure-transit candidates, at
\* most 1 pure-taxi candidate and at most 10 hybrid candidates, so that
\* meta.totalCandidates is at most 14.
C15_CandidateCounts ==
    /\ pc \notin {"request", "rejected"} =>
            /\ Len(OfType(allRoutes, "subway")) <= 3
            /\ Len(OfType(allRoutes, "taxi")) <= 1
            /\ Len(OfType(allRoutes, "mixed")) <= 10
            /\ Len(allRoutes) <= 14
    /\ pc \in {"respond", "done"} => result.meta.totalCandidates <= 14

\* the provider returned more than three itineraries and the strategies
\* gathered more than ten hybrids: 3 + 1 + 10 candidates are counted
C15_Witness ==
    /\ pc = "done"
    /\ Len(mixedRoutes) > 10
    /\ Len(OfType(allRoutes, "subway")) = 3
    /\ Len(OfType(allRoutes, "taxi")) = 1
    /\ Len(OfType(allRoutes, "mixed")) = 10
    /\ result.meta.totalCandidates = 14

\* C16: in every result of planRoute with at least one candidate, each of
\* recommended, fastest and cheapest is, but for its tags, one of the entries
\* of allRoutes, however many candidates were generated.
C16_RecommendedAmongAllRoutes ==
    (pc \in {"respond", "done"} /\ Len(scoredRoutes) > 0) =>
        \A pick \in {result.recommended, result.fastest, result.cheapest} :
            \E i \in 1..Len(result.allRoutes) :
                result.allRoutes[i] = StripTags(pick)

====
